---- MODULE Spec2Model ----
(***************************************************************************)
(* A model of testzeus_hercules/config.py: BaseConfigManager (the          *)
(* precedence-resolution and validation pipeline, the typed and the        *)
(* directory-provisioning accessors, the test identifier) and              *)
(* SingletonConfigManager / NonSingletonConfigManager (the registry).      *)
(*                                                                         *)
(* Python values are modelled as follows.  A str is a TLA+ string; None is *)
(* the reserved token None, which is no member of any string domain used   *)
(* here.  A dict is a function whose DOMAIN is the set of its keys; {} is  *)
(* the empty function <<>>.  An object is an index into the sequence objs. *)
(***************************************************************************)
EXTENDS Naturals, Sequences, FiniteSets, TLC

VARIABLES
    argv,         \* the parsed command line: argparse dest -> str or None
    environ,      \* os.environ
    environ0,     \* os.environ as it was when the process started
    dotenv,       \* the content of the file ".env"
    config_dict,  \* the dict the caller passed to the last construction or patch
    objs,         \* the heap of BaseConfigManager objects, in allocation order
    _instance,    \* SingletonConfigManager._instance: 0 (None) or an index of objs
    fs,           \* the paths that exist in the filesystem
    dirs_made,    \* how many calls of os.makedirs have returned
    status,       \* "running", or "exit1" once exit(1) ended the process
    op,           \* the last call: its name, arguments and result
    ctx           \* the calls in progress in concurrent execution contexts

vars ==
    <<argv, environ, environ0, dotenv, config_dict, objs, _instance, fs,
      dirs_made, status, op, ctx>>

-----------------------------------------------------------------------------
(* Python values *)

None == "<None>"

\* bool(v) for v a str or None
Truthy(v) == v # None /\ v # ""

\* dict.get(k) and dict.get(k, d)
Get(d, k) == IF k \in DOMAIN d THEN d[k] ELSE None

GetOr(d, k, dflt) == IF k \in DOMAIN d THEN d[k] ELSE dflt

\* d[k] = v
SetItem(d, k, v) == (k :> v) @@ d

\* (mutant) the default also replaces a value that is None or empty
SetDefaultIfFalsy(d, k, v) ==
    IF k \in DOMAIN d /\ Truthy(d[k]) THEN d ELSE (k :> v) @@ d

\* dict.setdefault(k, v)
SetDefault(d, k, v) == IF k \in DOMAIN d THEN d ELSE (k :> v) @@ d

\* dict.update(other): every key of other is written, the rest is kept
Update(d, other) == other @@ d

\* str.lower() on the spellings of the booleans used here
Lower(s) ==
    CASE s \in {"true", "True", "TRUE"} -> "true"
      [] s \in {"false", "False", "FALSE"} -> "false"
      [] OTHER -> s

-----------------------------------------------------------------------------
(* posixpath *)

StartsWithSep(s) == Len(s) > 0 /\ SubSeq(s, 1, 1) = "/"

EndsWithSep(s) == Len(s) > 0 /\ SubSeq(s, Len(s), Len(s)) = "/"

\* os.path.join(a, b) for two str
PathJoin(a, b) ==
    IF StartsWithSep(b) THEN b
    ELSE IF a = "" \/ EndsWithSep(a) THEN a \o b
    ELSE a \o "/" \o b

\* s.rfind("/") + 1, searching down from position i
RECURSIVE RFindSep(_, _)
RFindSep(s, i) ==
    IF i = 0 THEN 0
    ELSE IF SubSeq(s, i, i) = "/" THEN i
    ELSE RFindSep(s, i - 1)

\* s.rstrip("/")
RECURSIVE RStripSep(_)
RStripSep(s) == IF EndsWithSep(s) THEN RStripSep(SubSeq(s, 1, Len(s) - 1)) ELSE s

\* os.path.dirname(p)
Dirname(p) ==
    LET head == SubSeq(p, 1, RFindSep(p, Len(p)))
    IN  IF head # "" /\ RStripSep(head) # "" THEN RStripSep(head) ELSE head

\* os.path.basename(p)
Basename(p) == SubSeq(p, RFindSep(p, Len(p)) + 1, Len(p))

\* The name under which a path is looked up: trailing separators do not count.
NormPath(p) == IF RStripSep(p) = "" THEN p ELSE RStripSep(p)

\* os.path.exists(p) for a str
Exists(files, p) == p # "" /\ NormPath(p) \in files

\* The directories os.makedirs(p) leaves existing: p and every ancestor of p.
Ancestors(p) ==
    LET q == NormPath(p)
    IN  {SubSeq(q, 1, i - 1) : i \in {j \in 2..Len(q) : SubSeq(q, j, j) = "/"}} \cup {q}

Makedirs(files, p) == files \cup Ancestors(p)


-----------------------------------------------------------------------------
(* BaseConfigManager: the construction pipeline *)

\* argparse dest -> the environment variable _parse_arguments writes
CliEnvName ==
    [input_file |-> "INPUT_GHERKIN_FILE_PATH",
     output_path |-> "JUNIT_XML_BASE_PATH",
     test_data_path |-> "TEST_DATA_PATH",
     project_base |-> "PROJECT_SOURCE_ROOT",
     llm_model |-> "LLM_MODEL_NAME",
     llm_model_api_key |-> "LLM_MODEL_API_KEY"]

CliFlags == DOMAIN CliEnvName

\* An absent flag parses to None.
NoArgs == [f \in CliFlags |-> None]

relevant_keys ==
    {"MODE", "PROJECT_SOURCE_ROOT", "INPUT_GHERKIN_FILE_PATH", "JUNIT_XML_BASE_PATH",
     "TEST_DATA_PATH", "BROWSER_TYPE", "HEADLESS", "RECORD_VIDEO", "TAKE_SCREENSHOTS",
     "CAPTURE_NETWORK", "CDP_ENDPOINT_URL", "LLM_MODEL_NAME", "LLM_MODEL_API_KEY",
     "AGENTS_LLM_CONFIG_FILE", "AGENTS_LLM_CONFIG_FILE_REF_KEY", "HF_HOME",
     "TOKENIZERS_PARALLELISM", "DONT_CLOSE_BROWSER", "TOKEN_VERBOSE",
     "BROWSER_RESOLUTION", "RUN_DEVICE", "LOCALE", "TIMEZONE", "GEOLOCATION",
     "COLOR_SCHEME", "LOAD_EXTRA_TOOLS", "GEO_PROVIDER", "GEO_API_KEY"}

\* is_test_env of __init__
IsTestEnv(env) == Lower(GetOr(env, "IS_TEST_ENV", "false")) = "true"

\* load_dotenv(".env", override=True): every name of the file is written
LoadDotenv(env, file) == file @@ env

\* _parse_arguments: a flag whose value is truthy is written to the environment
_parse_arguments(env, args) ==
    LET given == {f \in CliFlags : Truthy(args[f])}
        names == {CliEnvName[f] : f \in given}
    IN  [k \in names \cup DOMAIN env |->
            IF k \in names
            THEN args[CHOOSE f \in given : CliEnvName[f] = k]
            ELSE env[k]]

\* (mutant) the environment only fills the keys the base mapping lacks
MergeFillsAbsentOnly(cfg, env) ==
    LET hit == (relevant_keys \cap DOMAIN env) \ DOMAIN cfg
    IN  [k \in hit \cup DOMAIN cfg |-> IF k \in hit THEN env[k] ELSE cfg[k]]

\* _merge_from_env: a relevant key that is in the environment overwrites the config
_merge_from_env(cfg, env) ==
    LET hit == relevant_keys \cap DOMAIN env
    IN  [k \in hit \cup DOMAIN cfg |-> IF k \in hit THEN env[k] ELSE cfg[k]]

\* (mutant) only the "neither strategy" check is made
CheckNeitherOnly(cfg) ==
    /\ ~Truthy(Get(cfg, "LLM_MODEL_NAME")) \/ ~Truthy(Get(cfg, "LLM_MODEL_API_KEY"))
    /\ \/ ~Truthy(Get(cfg, "AGENTS_LLM_CONFIG_FILE"))
       \/ ~Truthy(Get(cfg, "AGENTS_LLM_CONFIG_FILE_REF_KEY"))

\* _check_llm_config: TRUE when it calls exit(1)
_check_llm_config(cfg) ==
    LET llm_model_name == Get(cfg, "LLM_MODEL_NAME")
        llm_model_api_key == Get(cfg, "LLM_MODEL_API_KEY")
        agents_llm_config_file == Get(cfg, "AGENTS_LLM_CONFIG_FILE")
        agents_llm_config_file_ref_key == Get(cfg, "AGENTS_LLM_CONFIG_FILE_REF_KEY")
    IN  \/ /\ Truthy(llm_model_name) /\ Truthy(llm_model_api_key)
           /\ Truthy(agents_llm_config_file) \/ Truthy(agents_llm_config_file_ref_key)
        \/ /\ ~Truthy(llm_model_name) \/ ~Truthy(llm_model_api_key)
           /\ ~Truthy(agents_llm_config_file) \/ ~Truthy(agents_llm_config_file_ref_key)

\* The setdefault calls of _finalize_defaults, in order, for a str project root
DefaultsTable(project_source_root) ==
    << <<"INPUT_GHERKIN_FILE_PATH", PathJoin(project_source_root, "input/test.feature")>>,
       <<"JUNIT_XML_BASE_PATH", PathJoin(project_source_root, "output")>>,
       <<"TEST_DATA_PATH", PathJoin(project_source_root, "test_data")>>,
       <<"SCREEN_SHOT_PATH", PathJoin(project_source_root, "proofs")>>,
       <<"PROJECT_TEMP_PATH", PathJoin(project_source_root, "temp")>>,
       <<"SOURCE_LOG_FOLDER_PATH", PathJoin(project_source_root, "log_files")>>,
       <<"TMP_GHERKIN_PATH", PathJoin(project_source_root, "gherkin_files")>>,
       <<"HF_HOME", "./.cache">>,
       <<"TOKENIZERS_PARALLELISM", "false">>,
       <<"TOKEN_VERBOSE", "false">>,
       <<"BROWSER_RESOLUTION", "1920,1080">>,
       <<"RUN_DEVICE", "desktop">>,
       <<"LOAD_EXTRA_TOOLS", "false">>,
       <<"LOCALE", "en-US">>,
       <<"TIMEZONE", None>>,
       <<"GEOLOCATION", None>>,
       <<"COLOR_SCHEME", "light">>,
       <<"HEADLESS", "true">>,
       <<"RECORD_VIDEO", "true">>,
       <<"TAKE_SCREENSHOTS", "true">>,
       <<"BROWSER_TYPE", "chromium">>,
       <<"CAPTURE_NETWORK", "true">>,
       <<"DONT_CLOSE_BROWSER", "false">>,
       <<"GEO_PROVIDER", None>>,
       <<"GEO_API_KEY", None>> >>

\* (mutant) the last setdefault call is missing
RECURSIVE SetDefaultsButLast(_, _)
SetDefaultsButLast(cfg, table) ==
    IF Len(table) <= 1 THEN cfg
    ELSE SetDefaultsButLast(SetDefault(cfg, Head(table)[1], Head(table)[2]), Tail(table))

RECURSIVE SetDefaults(_, _)
SetDefaults(cfg, table) ==
    IF table = <<>> THEN cfg
    ELSE SetDefaults(SetDefault(cfg, Head(table)[1], Head(table)[2]), Tail(table))

\* _finalize_defaults raises TypeError: os.path.join(None, ...) is evaluated for
\* every path key, present or not
FinalizeRaises(cfg) == GetOr(cfg, "PROJECT_SOURCE_ROOT", "./opt") = None

\* (mutant) the path defaults are derived from the built-in root, whatever the
\* merged PROJECT_SOURCE_ROOT
FinalizeFromBuiltinRoot(cfg) ==
    LET c1 == SetDefault(cfg, "MODE", "prod")
        c2 == SetDefault(c1, "DEFAULT_TEST_ID", "default")
        project_source_root == GetOr(c2, "PROJECT_SOURCE_ROOT", "./opt")
        c3 == SetItem(c2, "PROJECT_SOURCE_ROOT", project_source_root)
    IN  SetDefaults(c3, DefaultsTable("./opt"))

\* _finalize_defaults, when it does not raise
_finalize_defaults(cfg) ==
    LET c1 == SetDefault(cfg, "MODE", "prod")
        c2 == SetDefault(c1, "DEFAULT_TEST_ID", "default")
        project_source_root == GetOr(c2, "PROJECT_SOURCE_ROOT", "./opt")
        c3 == SetItem(c2, "PROJECT_SOURCE_ROOT", project_source_root)
    IN  SetDefaults(c3, DefaultsTable(project_source_root))

\* os.environ after steps 1-3 of __init__
EnvAfterInit(base, ignore_env, env, args, file) ==
    IF ignore_env THEN env
    ELSE _parse_arguments(IF IsTestEnv(env) THEN env ELSE LoadDotenv(env, file), args)

\* (mutant) the environment is merged whether or not it is to be ignored
MergedConfigAlways(base, ignore_env, env, args, file) ==
    _merge_from_env(base, EnvAfterInit(base, FALSE, env, args, file))

\* self._config after steps 1-3 of __init__: the copy of the base, merged
MergedConfig(base, ignore_env, env, args, file) ==
    IF ignore_env THEN base
    ELSE _merge_from_env(base, EnvAfterInit(base, ignore_env, env, args, file))

\* (mutant) the validator runs first, on the copy of the base, before the merge
ValidateBeforeMerge(base, ignore_env, env, args, file) ==
    LET env1 == EnvAfterInit(base, ignore_env, env, args, file)
        merged == MergedConfig(base, ignore_env, env, args, file)
        raised == IF _check_llm_config(base) THEN "SystemExit"
                  ELSE IF FinalizeRaises(merged) THEN "TypeError"
                  ELSE "none"
        final == IF raised = "none" THEN _finalize_defaults(merged) ELSE merged
    IN  [raised |-> raised,
         environ |-> env1,
         self |-> [_config |-> final,
                   _ignore_env |-> ignore_env,
                   _default_test_id |-> IF raised = "none"
                                        THEN GetOr(final, "DEFAULT_TEST_ID", "default")
                                        ELSE None]]

\* BaseConfigManager.__init__: what it raises, the environment it leaves and the
\* object as it stands when __init__ returns or raises (_default_test_id is
\* assigned last)
BaseConfigManager(base, ignore_env, env, args, file) ==
    LET env1 == EnvAfterInit(base, ignore_env, env, args, file)
        merged == MergedConfig(base, ignore_env, env, args, file)
        raised == IF _check_llm_config(merged) THEN "SystemExit"
                  ELSE IF FinalizeRaises(merged) THEN "TypeError"
                  ELSE "none"
        final == IF raised = "none" THEN _finalize_defaults(merged) ELSE merged
    IN  [raised |-> raised,
         environ |-> env1,
         self |-> [_config |-> final,
                   _ignore_env |-> ignore_env,
                   _default_test_id |-> IF raised = "none"
                                        THEN GetOr(final, "DEFAULT_TEST_ID", "default")
                                        ELSE None]]

-----------------------------------------------------------------------------
(* Calls *)

MaxObjects == 2

\* A call: the method, the object it was called on or returned, its arguments, the
\* str it returned, what it raised, whether it directly followed a reset, and
\* whether it directly followed the same call on the same object having returned
Call(name, self, ignore_env, test_id, ret, err) ==
    [name |-> name, self |-> self, ignore_env |-> ignore_env,
     test_id |-> test_id, ret |-> ret, err |-> err,
     after_reset |-> op.name = "reset_instance",
     again |-> op.name = name /\ op.self = self /\ op.test_id = test_id
               /\ op.err = "none"]

NoCall ==
    [name |-> "start", self |-> 0, ignore_env |-> FALSE, test_id |-> None,
     ret |-> None, err |-> "none", after_reset |-> FALSE, again |-> FALSE]

Running == status = "running"

\* (mutant) __init__ works on the caller's mapping itself, not on a copy of it
ConstructOnCallersDict(name, base, ignore_env, shared) ==
    LET r == BaseConfigManager(base, ignore_env, environ, argv, dotenv)
        ok == r.raised = "none"
        new == Len(objs) + 1
    IN  /\ environ' = r.environ
        /\ config_dict' = r.self._config
        /\ objs' = IF ok THEN Append(objs, r.self) ELSE objs
        /\ _instance' = IF ok /\ shared THEN new ELSE _instance
        /\ status' = IF r.raised = "SystemExit" THEN "exit1" ELSE status
        /\ op' = Call(name, IF ok THEN new ELSE 0, ignore_env, None, None, r.raised)
        /\ UNCHANGED <<ctx, argv, environ0, dotenv, fs, dirs_made>>

\* cls(config_dict, ignore_env=ignore_env): __init__ runs; when it returns, the new
\* object is allocated (and, for the registry, stored in _instance); exit(1) ends
\* the process; an exception leaves no object.  The environment keeps what steps
\* 1-2 wrote in every case.
Construct(name, base, ignore_env, shared) ==
    LET r == BaseConfigManager(base, ignore_env, environ, argv, dotenv)
        ok == r.raised = "none"
        new == Len(objs) + 1
    IN  /\ environ' = r.environ
        /\ config_dict' = base
        /\ objs' = IF ok THEN Append(objs, r.self) ELSE objs
        /\ _instance' = IF ok /\ shared THEN new ELSE _instance
        /\ status' = IF r.raised = "SystemExit" THEN "exit1" ELSE status
        /\ op' = Call(name, IF ok THEN new ELSE 0, ignore_env, None, None, r.raised)
        /\ UNCHANGED <<ctx, argv, environ0, dotenv, fs, dirs_made>>

\* NonSingletonConfigManager(config_dict, ignore_env) and from_dict
NonSingletonConfigManager(base, ignore_env) ==
    /\ Running
    /\ Len(objs) < MaxObjects
    /\ Construct("NonSingletonConfigManager", base, ignore_env, FALSE)

\* (mutant) instance() constructs a new shared object on every call
InstanceAlwaysConstructs(base, ignore_env) ==
    /\ Running
    /\ Len(objs) < MaxObjects
    /\ Construct("instance", base, ignore_env, TRUE)

\* (mutant) the patch only adds the keys the shared instance lacks
PatchAddsAbsentOnly(base) ==
    /\ _instance # 0
    /\ objs' = [objs EXCEPT ![_instance]._config = Update(base, @)]
    /\ config_dict' = base
    /\ UNCHANGED <<ctx, argv, environ, environ0, dotenv, _instance, fs, dirs_made, status>>

\* cls._instance._config.update(config_dict)
Patch(base) ==
    /\ _instance # 0
    /\ objs' = [objs EXCEPT ![_instance]._config = Update(@, base)]
    /\ config_dict' = base
    /\ UNCHANGED <<ctx, argv, environ, environ0, dotenv, _instance, fs, dirs_made, status>>

\* SingletonConfigManager.instance(config_dict, ignore_env) with a dict
instance(base, ignore_env) ==
    /\ Running
    /\ \/ /\ _instance = 0
          /\ Len(objs) < MaxObjects
          /\ Construct("instance", base, ignore_env, TRUE)
       \/ /\ Patch(base)
          /\ op' = Call("instance", _instance, ignore_env, None, None, "none")

\* SingletonConfigManager.instance(None, ignore_env): an empty base, no patch
instance_no_dict(ignore_env) ==
    /\ Running
    /\ \/ /\ _instance = 0
          /\ Len(objs) < MaxObjects
          /\ Construct("instance_no_dict", <<>>, ignore_env, TRUE)
       \/ /\ _instance # 0
          /\ op' = Call("instance_no_dict", _instance, ignore_env, None, None, "none")
          /\ UNCHANGED <<ctx, argv, environ, environ0, dotenv, config_dict, objs, _instance,
                         fs, dirs_made, status>>

\* (mutant) reset_instance leaves the shared instance in place
ResetKeepsInstance ==
    /\ Running
    /\ op' = Call("reset_instance", 0, FALSE, None, None, "none")
    /\ UNCHANGED <<ctx, argv, environ, environ0, dotenv, config_dict, objs, _instance, fs,
                   dirs_made, status>>

\* An object nothing refers to any more: its slot of the heap keeps no content.
Freed == [_config |-> <<>>, _ignore_env |-> FALSE, _default_test_id |-> None]

\* SingletonConfigManager.reset_instance().  The registry held the reference through
\* which the shared object was reached: the object dropped is garbage.
reset_instance ==
    /\ Running
    /\ _instance' = 0
    /\ objs' = [i \in 1..Len(objs) |-> IF i = _instance THEN Freed ELSE objs[i]]
    /\ op' = Call("reset_instance", 0, FALSE, None, None, "none")
    /\ UNCHANGED <<ctx, argv, environ, environ0, dotenv, config_dict, fs,
                   dirs_made, status>>

\* (mutant) set_default_test_id keeps the identifier under a key of its own
SetTestIdUnderOwnKey(name, self, arg, test_id) ==
    /\ Running
    /\ self \in 1..Len(objs) /\ objs[self] # Freed
    /\ objs' = [objs EXCEPT ![self]._default_test_id = test_id,
                            ![self]._config = SetItem(@, "CURRENT_TEST_ID", test_id)]
    /\ op' = Call(name, self, FALSE, arg, None, "none")
    /\ UNCHANGED <<ctx, argv, environ, environ0, dotenv, config_dict, _instance, fs,
                   dirs_made, status>>

\* SingletonConfigManager.reset_instance() while a caller still holds the object
\* instance() returned (as the module does in CONF): the registry forgets the
\* object, which lives on.
reset_instance_held ==
    /\ Running
    /\ _instance' = 0
    /\ op' = Call("reset_instance", 0, FALSE, None, None, "none")
    /\ UNCHANGED <<ctx, argv, environ, environ0, dotenv, config_dict, objs, fs,
                   dirs_made, status>>

\* self.set_default_test_id(test_id), under the name of the method called
SetTestId(name, self, arg, test_id) ==
    /\ Running
    /\ self \in 1..Len(objs) /\ objs[self] # Freed
    /\ objs' = [objs EXCEPT ![self]._default_test_id = test_id,
                            ![self]._config = SetItem(@, "DEFAULT_TEST_ID", test_id)]
    /\ op' = Call(name, self, FALSE, arg, None, "none")
    /\ UNCHANGED <<ctx, argv, environ, environ0, dotenv, config_dict, _instance, fs,
                   dirs_made, status>>

set_default_test_id(self, test_id) ==
    SetTestId("set_default_test_id", self, test_id, test_id)

reset_default_test_id(self) ==
    SetTestId("reset_default_test_id", self, None, "default")

get_default_test_id(self) ==
    /\ Running
    /\ self \in 1..Len(objs) /\ objs[self] # Freed
    /\ op' = Call("get_default_test_id", self, FALSE, None,
                  objs[self]._default_test_id, "none")
    /\ UNCHANGED <<ctx, argv, environ, environ0, dotenv, config_dict, objs, _instance, fs,
                   dirs_made, status>>

-----------------------------------------------------------------------------
(* The accessors that provision directories *)

MaxDirsMade == 2

Alive(self) == self \in 1..Len(objs) /\ objs[self] # Freed

\* An accessor that changes nothing but what the caller sees
Returns(name, self, arg, ret, err) ==
    /\ op' = Call(name, self, FALSE, arg, ret, err)
    /\ UNCHANGED <<ctx, argv, environ, environ0, dotenv, config_dict, objs, _instance, fs,
                   dirs_made, status>>

\* os.makedirs on each of `targets` in turn.  A call may raise OSError (always for
\* the empty path); the calls before it have created their directories, the calls
\* after it are never made.  When none raises the accessor returns `path`.
MakeAll(name, self, arg, path, targets) ==
    \E n \in 0..Len(targets) :
        /\ \A i \in 1..n : targets[i] # ""
        /\ dirs_made + n <= MaxDirsMade
        /\ fs' = fs \cup UNION {Ancestors(targets[i]) : i \in 1..n}
        /\ dirs_made' = dirs_made + n
        /\ op' = IF n = Len(targets)
                 THEN Call(name, self, FALSE, arg, path, "none")
                 ELSE Call(name, self, FALSE, arg, None, "OSError")
        /\ UNCHANGED <<ctx, argv, environ, environ0, dotenv, config_dict, objs, _instance,
                       status>>

\* (mutant) os.makedirs is called whether or not the path exists, and raises
\* FileExistsError when it does
ProvisionUnguarded(name, self, arg, path, targets) ==
    /\ Running /\ Alive(self)
    /\ \/ path = None /\ Returns(name, self, arg, None, "TypeError")
       \/ path # None /\ Exists(fs, path) /\ Returns(name, self, arg, None, "OSError")
       \/ path # None /\ ~Exists(fs, path) /\ MakeAll(name, self, arg, path, targets)

\* path = ...; if not os.path.exists(path): os.makedirs(...); return path
\* os.path.exists(None) and os.path.join(..., None) raise TypeError.
Provision(name, self, arg, path, targets) ==
    /\ Running /\ Alive(self)
    /\ \/ path = None /\ Returns(name, self, arg, None, "TypeError")
       \/ path # None /\ Exists(fs, path) /\ Returns(name, self, arg, path, "none")
       \/ path # None /\ ~Exists(fs, path) /\ MakeAll(name, self, arg, path, targets)

\* (mutant) the per-test path is built from the mapping's DEFAULT_TEST_ID
PerTestPathFromMapping(self, key, arg) ==
    LET test_id == IF Truthy(arg) THEN arg ELSE objs[self]._config["DEFAULT_TEST_ID"]
        base_path == objs[self]._config[key]
    IN  IF base_path = None \/ test_id = None THEN None ELSE PathJoin(base_path, test_id)

\* test_id = test_id or self._default_test_id; os.path.join(self._config[key], test_id)
PerTestPath(self, key, arg) ==
    LET test_id == IF Truthy(arg) THEN arg ELSE objs[self]._default_test_id
        base_path == objs[self]._config[key]
    IN  IF base_path = None \/ test_id = None THEN None ELSE PathJoin(base_path, test_id)

\* "" when path is None, so that the targets are always str
Str(path) == IF path = None THEN "" ELSE path

get_input_gherkin_file_path(self) ==
    LET path == objs[self]._config["INPUT_GHERKIN_FILE_PATH"]
        base_path == Dirname(Str(path))
    IN  /\ Alive(self)
        /\ Provision("get_input_gherkin_file_path", self, None, path,
                     IF base_path # "" /\ ~Exists(fs, base_path)
                     THEN <<base_path>> ELSE <<>>)

get_tmp_gherkin_path(self) ==
    LET path == objs[self]._config["TMP_GHERKIN_PATH"]
    IN  Alive(self) /\ Provision("get_tmp_gherkin_path", self, None, path, <<Str(path)>>)

get_junit_xml_base_path(self) ==
    LET path == objs[self]._config["JUNIT_XML_BASE_PATH"]
    IN  Alive(self) /\ Provision("get_junit_xml_base_path", self, None, path, <<Str(path)>>)

get_source_log_folder_path(self, test_id) ==
    LET path == PerTestPath(self, "SOURCE_LOG_FOLDER_PATH", test_id)
    IN  /\ Alive(self)
        /\ Provision("get_source_log_folder_path", self, test_id, path, <<Str(path)>>)

get_test_data_path(self) ==
    LET path == objs[self]._config["TEST_DATA_PATH"]
    IN  Alive(self) /\ Provision("get_test_data_path", self, None, path, <<Str(path)>>)

get_proof_path(self, test_id) ==
    LET path == PerTestPath(self, "SCREEN_SHOT_PATH", test_id)
    IN  /\ Alive(self)
        /\ Provision("get_proof_path", self, test_id, path,
                     <<PathJoin(Str(path), "screenshots"), PathJoin(Str(path), "videos")>>)

get_project_temp_path(self, test_id) ==
    LET path == PerTestPath(self, "PROJECT_TEMP_PATH", test_id)
    IN  /\ Alive(self)
        /\ Provision("get_project_temp_path", self, test_id, path, <<Str(path)>>)

\* get_config() returns the dict itself; the typed accessors read one key of it
get_browser_type(self) ==
    /\ Running /\ Alive(self)
    /\ Returns("get_browser_type", self, None, objs[self]._config["BROWSER_TYPE"], "none")

-----------------------------------------------------------------------------
(* The construction pipeline on its own: one construction per run, over every *)
(* combination of the sources of one key at a time.                           *)

LLMKeys ==
    {"LLM_MODEL_NAME", "LLM_MODEL_API_KEY",
     "AGENTS_LLM_CONFIG_FILE", "AGENTS_LLM_CONFIG_FILE_REF_KEY"}

PathKeys ==
    {"INPUT_GHERKIN_FILE_PATH", "JUNIT_XML_BASE_PATH", "TEST_DATA_PATH",
     "SCREEN_SHOT_PATH", "PROJECT_TEMP_PATH", "SOURCE_LOG_FOLDER_PATH",
     "TMP_GHERKIN_PATH"}

AllKeys == relevant_keys \cup PathKeys \cup {"DEFAULT_TEST_ID"}

\* Every dict with keys among `keys` and values among `vals`
Dicts(keys, vals) == UNION {[S -> vals] : S \in SUBSET keys}

ValidCreds == [LLM_MODEL_NAME |-> "gpt", LLM_MODEL_API_KEY |-> "sk"]

FlagsOf(k) == {f \in CliFlags : CliEnvName[f] = k}

\* Command lines that give only the flag(s) of key k, with an empty or a real value
ArgvFor(k) ==
    {[f \in CliFlags |-> IF f \in FlagsOf(k) THEN v ELSE None] : v \in {None, "", "/cli"}}

\* The four credential keys, from all three sources at once
InitAuth ==
    /\ argv \in {[NoArgs EXCEPT !.llm_model = a, !.llm_model_api_key = b] :
                    a \in {None, "", "cli"}, b \in {None, "", "cli"}}
    /\ environ \in Dicts(LLMKeys \ {"AGENTS_LLM_CONFIG_FILE_REF_KEY"}, {"env"})
    /\ dotenv = <<>>
    /\ config_dict \in Dicts(LLMKeys, {"", "base"})

\* One other key k, from all four sources at once, with valid credentials
InitKey(k) ==
    /\ argv \in ArgvFor(k)
    /\ \E e \in Dicts({k}, {"", "/env"}), t \in Dicts({"IS_TEST_ENV"}, {"true"}) :
          environ = e @@ t
    /\ dotenv \in Dicts({k}, {"/dotenv"})
    /\ \E b \in Dicts({k}, {None, "", "/base"}) : config_dict = b @@ ValidCreds

InitConstruct ==
    /\ InitAuth \/ \E k \in AllKeys \ LLMKeys : InitKey(k)
    /\ environ0 = environ
    /\ objs = <<>>
    /\ _instance = 0
    /\ fs = {}
    /\ dirs_made = 0
    /\ status = "running"
    /\ op = NoCall
    /\ ctx = <<>>

NextConstruct ==
    \E ignore_env \in BOOLEAN :
        /\ op = NoCall
        /\ NonSingletonConfigManager(config_dict, ignore_env)

SpecConstruct == InitConstruct /\ [][NextConstruct]_vars

-----------------------------------------------------------------------------
(* Claims about the construction pipeline (SpecConstruct) *)

Constructed == op.name = "NonSingletonConfigManager" /\ op.err = "none"

\* The environment EnvironmentSource reads, before any flag is written to it: the
\* process environment with the names of the .env file loaded over it.
EnvSeen == IF IsTestEnv(environ0) THEN environ0 ELSE dotenv @@ environ0

CliKeys == {CliEnvName[f] : f \in CliFlags}

CliValue(k) == argv[CHOOSE f \in CliFlags : CliEnvName[f] = k]

FlagGiven(k) == k \in CliKeys /\ CliValue(k) # None

FlagGivenNonEmpty(k) == k \in CliKeys /\ CliValue(k) \notin {None, ""}

StaticDefault ==
    [MODE |-> "prod", PROJECT_SOURCE_ROOT |-> "./opt", HF_HOME |-> "./.cache",
     TOKENIZERS_PARALLELISM |-> "false", TOKEN_VERBOSE |-> "false",
     BROWSER_RESOLUTION |-> "1920,1080", RUN_DEVICE |-> "desktop",
     LOAD_EXTRA_TOOLS |-> "false", LOCALE |-> "en-US", TIMEZONE |-> None,
     GEOLOCATION |-> None, COLOR_SCHEME |-> "light", HEADLESS |-> "true",
     RECORD_VIDEO |-> "true", TAKE_SCREENSHOTS |-> "true", BROWSER_TYPE |-> "chromium",
     CAPTURE_NETWORK |-> "true", DONT_CLOSE_BROWSER |-> "false", GEO_PROVIDER |-> None,
     GEO_API_KEY |-> None, DEFAULT_TEST_ID |-> "default"]

PathSuffix ==
    [INPUT_GHERKIN_FILE_PATH |-> "input/test.feature", JUNIT_XML_BASE_PATH |-> "output",
     TEST_DATA_PATH |-> "test_data", SCREEN_SHOT_PATH |-> "proofs",
     PROJECT_TEMP_PATH |-> "temp", SOURCE_LOG_FOLDER_PATH |-> "log_files",
     TMP_GHERKIN_PATH |-> "gherkin_files"]

\* Key k of cfg holds its computed default (no default: the key is absent)
IsDefault(cfg, k) ==
    IF k \in DOMAIN StaticDefault THEN k \in DOMAIN cfg /\ cfg[k] = StaticDefault[k]
    ELSE IF k \in DOMAIN PathSuffix
    THEN k \in DOMAIN cfg /\ cfg[k] = PathJoin(cfg["PROJECT_SOURCE_ROOT"], PathSuffix[k])
    ELSE k \notin DOMAIN cfg

Holds(cfg, k, v) == k \in DOMAIN cfg /\ cfg[k] = v

\* The precedence law for key k, where `cli` says when the flag of k counts as given
Precedence(cfg, k, cli) ==
    IF cli THEN Holds(cfg, k, CliValue(k))
    ELSE IF k \in DOMAIN EnvSeen THEN Holds(cfg, k, EnvSeen[k])
    ELSE IF k \in DOMAIN config_dict THEN Holds(cfg, k, config_dict[k])
    ELSE IsDefault(cfg, k)

Seen(k, ignore_env) ==
    IF ~ignore_env /\ FlagGivenNonEmpty(k) THEN CliValue(k)
    ELSE IF ~ignore_env /\ k \in DOMAIN EnvSeen /\ k \in relevant_keys THEN EnvSeen[k]
    ELSE Get(config_dict, k)

ModelPairSet(ig) ==
    Truthy(Seen("LLM_MODEL_NAME", ig)) /\ Truthy(Seen("LLM_MODEL_API_KEY", ig))

FilePairSet(ig) ==
    /\ Truthy(Seen("AGENTS_LLM_CONFIG_FILE", ig))
    /\ Truthy(Seen("AGENTS_LLM_CONFIG_FILE_REF_KEY", ig))

Attempted == op.name = "NonSingletonConfigManager"

\* C2: a construction whose merged mapping has both pairs fully set, or neither,
\* ends the process with exit code 1 and yields no instance.
C2_AuthRejection ==
    (Attempted /\ (ModelPairSet(op.ignore_env) <=> FilePairSet(op.ignore_env))) =>
        status = "exit1" /\ op.self = 0 /\ objs = <<>>

\* A rejected construction with both pairs fully set
C2_Witness ==
    /\ Attempted /\ status = "exit1"
    /\ ModelPairSet(op.ignore_env) /\ FilePairSet(op.ignore_env)

\* C3: a construction with exactly one pair fully set is not rejected, whatever
\* the other two keys are.
C3_AuthAcceptance ==
    (Attempted /\ (ModelPairSet(op.ignore_env) <=> ~FilePairSet(op.ignore_env))) =>
        status # "exit1"

AccessorKeys ==
    {"MODE", "PROJECT_SOURCE_ROOT", "HEADLESS", "RECORD_VIDEO", "TAKE_SCREENSHOTS",
     "CAPTURE_NETWORK", "BROWSER_TYPE", "DONT_CLOSE_BROWSER", "HF_HOME", "TOKEN_VERBOSE",
     "BROWSER_RESOLUTION", "RUN_DEVICE", "LOAD_EXTRA_TOOLS", "LOCALE", "TIMEZONE",
     "GEOLOCATION", "COLOR_SCHEME", "GEO_PROVIDER", "GEO_API_KEY"} \cup PathKeys

\* C4: every key an accessor reads is present in the mapping of every instance.
C4_Completeness ==
    \A i \in 1..Len(objs) : AccessorKeys \subseteq DOMAIN objs[i]._config

\* An instance built, the environment ignored, from a mapping with none of the keys
C4_Witness ==
    /\ Constructed /\ op.ignore_env
    /\ AccessorKeys \cap DOMAIN config_dict = {}

\* The outcome of a construction: what it raised and, when it returned, the
\* instance it built
Outcome(r) == [raised |-> r.raised, self |-> IF r.raised = "none" THEN r.self ELSE None]

\* The outcome of the construction that was run
OutcomeSeen ==
    [raised |-> op.err, self |-> IF op.err = "none" THEN objs[op.self] ELSE None]

\* C11: a construction that ignores the environment has the outcome (what it
\* raised, and the whole instance when it returned) of the construction from the
\* same base mapping with an empty environment, no .env file and no flags, and it
\* leaves the process environment as it found it.
C11_IgnoreEnvIsolation ==
    (Attempted /\ op.ignore_env) =>
        /\ OutcomeSeen = Outcome(BaseConfigManager(config_dict, TRUE, <<>>, NoArgs, <<>>))
        /\ environ = environ0

\* An environment-ignoring construction that returned, where the environment set a
\* key of the base mapping to another value and a flag was given
C11_Witness ==
    /\ Constructed /\ op.ignore_env
    /\ \E k \in CliKeys :
          /\ FlagGivenNonEmpty(k)
          /\ k \in DOMAIN environ0 /\ k \in DOMAIN config_dict
          /\ environ0[k] # config_dict[k]
          /\ objs[op.self]._config[k] = config_dict[k]

\* The working mapping of the construction that was run, after the merge
Merged == MergedConfig(config_dict, op.ignore_env, environ0, argv, dotenv)

\* C12: after a construction that returned, every path-valued key that was absent
\* after the merge holds the resolved project source root (the merged
\* PROJECT_SOURCE_ROOT, "./opt" when absent) joined with the fixed suffix of the
\* key, and PROJECT_SOURCE_ROOT holds that root.
C12_DerivedPaths ==
    Constructed =>
        LET cfg == objs[op.self]._config
            root == GetOr(Merged, "PROJECT_SOURCE_ROOT", "./opt")
        IN  /\ cfg["PROJECT_SOURCE_ROOT"] = root
            /\ \A k \in PathKeys \ DOMAIN Merged : cfg[k] = PathJoin(root, PathSuffix[k])

\* A construction whose project source root came from the environment and whose
\* test-data path came from no source
C12_Witness ==
    /\ Constructed /\ ~op.ignore_env
    /\ "TEST_DATA_PATH" \notin DOMAIN Merged
    /\ Get(Merged, "PROJECT_SOURCE_ROOT") = "/env"
    /\ objs[op.self]._config["TEST_DATA_PATH"] = "/env/test_data"

\* C16: after a construction that returned, every key that was in the working
\* mapping after the merge, a key with an empty or a None value included, has the
\* value it had there: the finalizer only added keys.
C16_FillIfAbsent ==
    Constructed =>
        \A k \in DOMAIN Merged :
            /\ k \in DOMAIN objs[op.self]._config
            /\ objs[op.self]._config[k] = Merged[k]

\* A construction whose merged mapping held None, or the empty string, under a key
\* that has a default
C16_Witness ==
    /\ Constructed
    /\ \E k \in DOMAIN Merged \cap (DOMAIN StaticDefault \cup PathKeys) :
          /\ Merged[k] \in {None, ""}
          /\ k # "PROJECT_SOURCE_ROOT"
          /\ objs[op.self]._config[k] = Merged[k]
          /\ ~IsDefault(objs[op.self]._config, k)

\* Mapping d supplies no credential: none of the four keys with a non-empty value
NoCreds(d) == \A k \in LLMKeys : ~Truthy(Get(d, k))

\* The inline pair comes from the flags and from nowhere else
CliOnly ==
    /\ FlagGivenNonEmpty("LLM_MODEL_NAME") /\ FlagGivenNonEmpty("LLM_MODEL_API_KEY")
    /\ NoCreds(EnvSeen) /\ NoCreds(config_dict)

\* The inline pair comes from the environment and from nowhere else
EnvOnly ==
    /\ Truthy(Get(EnvSeen, "LLM_MODEL_NAME")) /\ Truthy(Get(EnvSeen, "LLM_MODEL_API_KEY"))
    /\ ~Truthy(Get(EnvSeen, "AGENTS_LLM_CONFIG_FILE"))
    /\ ~Truthy(Get(EnvSeen, "AGENTS_LLM_CONFIG_FILE_REF_KEY"))
    /\ ~FlagGivenNonEmpty("LLM_MODEL_NAME") /\ ~FlagGivenNonEmpty("LLM_MODEL_API_KEY")
    /\ NoCreds(config_dict)

\* C17: the validator sees the mapping after the merge and before the defaults.
\* (1) Reading the environment, credentials given only by the flags, or only by
\* the environment, are accepted.  (2) Ignoring the environment, a base mapping
\* without credentials is rejected with exit code 1 whatever the environment and
\* the flags hold.  (3) No default is a credential: without credentials from any
\* source the construction is rejected, and a construction that returned holds the
\* credential keys of the merged mapping and no other.  (4) A rejected construction
\* leaves no instance, and the object it abandons has the merged mapping, without
\* defaults, and no test identifier.
C17_ValidationOrdering ==
    Attempted =>
        /\ (~op.ignore_env /\ (CliOnly \/ EnvOnly)) => op.err = "none"
        /\ (op.ignore_env /\ NoCreds(config_dict)) => status = "exit1"
        /\ NoCreds(Merged) => status = "exit1"
        /\ Constructed =>
              \A k \in LLMKeys : k \in DOMAIN objs[op.self]._config <=> k \in DOMAIN Merged
        /\ status = "exit1" =>
              LET self == BaseConfigManager(config_dict, op.ignore_env, environ0, argv,
                                            dotenv).self
              IN  /\ op.err = "SystemExit" /\ op.self = 0 /\ objs = <<>>
                  /\ self._config = Merged
                  /\ self._default_test_id = None

\* Credentials from the flags alone, accepted by a construction that reads the
\* environment
C17_Witness ==
    /\ Constructed /\ ~op.ignore_env /\ CliOnly
    /\ objs[op.self]._config["LLM_MODEL_NAME"] = "cli"

-----------------------------------------------------------------------------
(* The registry and the test identifier, from the state in which the module *)
(* has defined its classes and has not yet made its own calls                *)

\* The dict of the module's own first call, the same with credentials, the dict of
\* its second call, the other authentication strategy, and a test identifier
ModuleBase == [MODE |-> "prod", PROJECT_SOURCE_ROOT |-> "./opt"]

ModulePatch == [DONT_CLOSE_BROWSER |-> "true"]

FileCreds ==
    [AGENTS_LLM_CONFIG_FILE |-> "agents.json", AGENTS_LLM_CONFIG_FILE_REF_KEY |-> "openai"]

TestIdPatch == [DEFAULT_TEST_ID |-> "run42"]

RegistryDicts == {ValidCreds @@ ModuleBase, ModulePatch, FileCreds, TestIdPatch}

TestIds == {"run42"}

Init ==
    /\ argv \in {NoArgs, [NoArgs EXCEPT !.project_base = "/cli"]}
    /\ environ \in {<<>>, [LLM_MODEL_NAME |-> "gpt-env", LLM_MODEL_API_KEY |-> "sk-env"]}
    /\ dotenv \in {<<>>, [BROWSER_TYPE |-> "firefox", IS_TEST_ENV |-> "true"]}
    /\ environ0 = environ
    /\ config_dict = <<>>
    /\ objs = <<>>
    /\ _instance = 0
    /\ fs = {}
    /\ dirs_made = 0
    /\ status = "running"
    /\ op = NoCall
    /\ ctx = <<>>

Next ==
    \/ \E base \in RegistryDicts, ignore_env \in BOOLEAN : instance(base, ignore_env)
    \/ \E ignore_env \in BOOLEAN : instance_no_dict(ignore_env)
    \/ reset_instance
    \/ \E self \in 1..Len(objs), test_id \in TestIds : set_default_test_id(self, test_id)
    \/ \E self \in 1..Len(objs) : reset_default_test_id(self)
    \/ \E self \in 1..Len(objs) : get_default_test_id(self)

Spec == Init /\ [][Next]_vars

-----------------------------------------------------------------------------
(* Claims about the registry (Spec) *)

InstanceCalls == {"instance", "instance_no_dict"}

\* The dict argument of the instance() call that op records ({} for None)
Supplied(o, d) == IF o.name = "instance" THEN d ELSE <<>>

\* C5: when a shared instance exists, instance(mapping) writes every key of the
\* mapping into it, keeps every other key, adds nothing else (no finalization),
\* replaces nothing and never ends the process (no validation).
C5_PatchSemantics ==
    [][(op'.name = "instance" /\ _instance # 0) =>
          LET old == objs[_instance]._config
              new == objs'[_instance]._config
          IN  /\ _instance' = _instance /\ Len(objs') = Len(objs)
              /\ \A k \in DOMAIN config_dict' : Holds(new, k, config_dict'[k])
              /\ \A k \in DOMAIN old \ DOMAIN config_dict' : Holds(new, k, old[k])
              /\ DOMAIN new = DOMAIN old \cup DOMAIN config_dict'
              /\ status' = "running" /\ op'.err = "none"]_vars

\* A patched shared instance whose mapping would not pass validation from scratch,
\* and in which the patch replaced a value
C5_Witness ==
    /\ op.name = "instance" /\ _instance # 0 /\ ~op.after_reset /\ status = "running"
    /\ _check_llm_config(objs[_instance]._config)
    /\ config_dict = FileCreds
    /\ Holds(objs[_instance]._config, "DONT_CLOSE_BROWSER", "true")

\* C6: an instance() call that directly follows a reset gives what the first
\* construction of the process from the same arguments gives: the same outcome,
\* and on success a new object with that mapping and that test identifier.
C6_CleanSlate ==
    (op.after_reset /\ op.name \in InstanceCalls) =>
        LET r == BaseConfigManager(Supplied(op, config_dict), op.ignore_env,
                                   environ0, argv, dotenv)
        IN  /\ op.err = r.raised
            /\ r.raised = "none" =>
                  /\ _instance = Len(objs) /\ op.self = _instance
                  /\ objs[_instance] = r.self

\* A second shared instance, built after a reset dropped the first one and after
\* the first construction had written to the environment
C6_Witness ==
    /\ op.after_reset /\ op.name = "instance" /\ op.err = "none"
    /\ _instance = 2 /\ objs[1] = Freed
    /\ environ # environ0
    /\ objs[_instance]._default_test_id = "default"

\* C8: instance() constructs, from the arguments supplied, only when the registry
\* is empty; otherwise it returns the object the registry holds, allocates nothing,
\* and its ignore_env argument changes neither that object nor the environment.
\* Only instance() fills the registry and only reset_instance() empties it.
C8_SingleSharedInstance ==
    [][/\ (op'.name \in InstanceCalls /\ _instance = 0 /\ op'.err = "none") =>
             /\ Len(objs') = Len(objs) + 1 /\ _instance' = Len(objs')
             /\ op'.self = _instance'
             /\ objs'[_instance'] =
                   BaseConfigManager(Supplied(op', config_dict'), op'.ignore_env,
                                     environ, argv, dotenv).self
       /\ (op'.name \in InstanceCalls /\ _instance # 0) =>
             /\ _instance' = _instance /\ op'.self = _instance
             /\ Len(objs') = Len(objs)
             /\ environ' = environ
             /\ objs'[_instance]._ignore_env = objs[_instance]._ignore_env
             /\ objs'[_instance]._default_test_id = objs[_instance]._default_test_id
             /\ objs'[_instance]._config =
                   Update(objs[_instance]._config, Supplied(op', config_dict'))
       /\ op'.name \notin InstanceCalls =>
             _instance' = IF op'.name = "reset_instance" THEN 0 ELSE _instance]_vars

\* A later instance() call whose ignore_env differs from the one the shared
\* instance was built with
C8_Witness ==
    /\ op.name \in InstanceCalls /\ ~op.after_reset /\ _instance # 0
    /\ op.self = _instance
    /\ op.ignore_env /\ ~objs[_instance]._ignore_env
    /\ environ # environ0

\* C18: in every state, the test identifier of every instance (what
\* get_default_test_id returns) is the value under DEFAULT_TEST_ID in its mapping.
C18_TestIdConsistency ==
    \A i \in 1..Len(objs) :
        objs[i] # Freed => objs[i]._default_test_id = objs[i]._config["DEFAULT_TEST_ID"]

-----------------------------------------------------------------------------
(* The shared instance, its test identifier and the directories it provisions *)

\* The defaults under ./opt; and a mapping with a test identifier of its own, a
\* null staging path and an input file that has no directory part
OddPathsDict ==
    ValidCreds @@ [DEFAULT_TEST_ID |-> "t7", TMP_GHERKIN_PATH |-> None,
                   INPUT_GHERKIN_FILE_PATH |-> "test.feature"]

PathDicts == {ValidCreds, OddPathsDict}

TestIdArgs == {None, "run42"}

\* Nothing exists; or the input file does, and the proof folder of the default
\* test without its subfolders
FsChoices ==
    {{}, Ancestors("./opt/proofs/default") \cup Ancestors("./opt/input/test.feature")}

InitPaths ==
    /\ argv = NoArgs
    /\ environ = <<>>
    /\ dotenv = <<>>
    /\ environ0 = environ
    /\ config_dict = <<>>
    /\ objs = <<>>
    /\ _instance = 0
    /\ fs \in FsChoices
    /\ dirs_made = 0
    /\ status = "running"
    /\ op = NoCall
    /\ ctx = <<>>

NextPaths ==
    \/ \E base \in PathDicts : instance(base, TRUE)
    \/ \E test_id \in TestIds : set_default_test_id(_instance, test_id)
    \/ reset_default_test_id(_instance)
    \/ get_default_test_id(_instance)
    \/ get_browser_type(_instance)
    \/ get_input_gherkin_file_path(_instance)
    \/ get_tmp_gherkin_path(_instance)
    \/ get_junit_xml_base_path(_instance)
    \/ get_test_data_path(_instance)
    \/ \E test_id \in TestIdArgs : get_source_log_folder_path(_instance, test_id)
    \/ \E test_id \in TestIdArgs : get_proof_path(_instance, test_id)
    \/ \E test_id \in TestIdArgs : get_project_temp_path(_instance, test_id)

SpecPaths == InitPaths /\ [][NextPaths]_vars

-----------------------------------------------------------------------------
(* Claims about the accessors and the test identifier (SpecPaths) *)

PerTestKey ==
    [get_source_log_folder_path |-> "SOURCE_LOG_FOLDER_PATH",
     get_proof_path |-> "SCREEN_SHOT_PATH",
     get_project_temp_path |-> "PROJECT_TEMP_PATH"]

PerTestAccessors == DOMAIN PerTestKey

PathAccessors ==
    PerTestAccessors \cup {"get_input_gherkin_file_path", "get_tmp_gherkin_path",
                           "get_junit_xml_base_path", "get_test_data_path"}

\* The last call was a path accessor and it returned
Provisioned == op.name \in PathAccessors /\ op.err = "none"

\* The directory the last call was to provide exists: the path it returned or, for
\* the input file, the directory of that path (the working directory when the path
\* has no directory part)
TargetExists ==
    IF op.name = "get_input_gherkin_file_path"
    THEN Exists(fs, op.ret) \/ Dirname(op.ret) = "" \/ Exists(fs, Dirname(op.ret))
    ELSE Exists(fs, op.ret)

\* C7: when a path accessor has returned, the directory it provides exists (for the
\* input file: its parent directory); and when the same accessor is then called
\* again on the same instance with the same test identifier, the second call
\* returns the same path, raises nothing and creates no directory.
C7_IdempotentProvisioning ==
    [][/\ Provisioned' => TargetExists'
       /\ (Provisioned /\ op'.name = op.name /\ op'.self = op.self
                       /\ op'.test_id = op.test_id)
          => /\ op'.err = "none"
             /\ op'.ret = op.ret
             /\ fs' = fs
             /\ dirs_made' = dirs_made]_vars

\* The proof path has been asked for twice in succession; the first call created
\* both subfolders
C7_Witness ==
    /\ Provisioned /\ op.again
    /\ op.name = "get_proof_path"
    /\ dirs_made = 2
    /\ Exists(fs, PathJoin(op.ret, "screenshots")) /\ Exists(fs, PathJoin(op.ret, "videos"))

TestIdSetters == {"set_default_test_id", "reset_default_test_id"}

\* C9 as stated: no call but the patch of instance() changes any key of the
\* mapping of the shared instance.
C9_ReadOnlyAsClaimed ==
    [][(_instance # 0 /\ op'.name # "instance")
       => objs'[_instance]._config = objs[_instance]._config]_vars

\* C9: after construction the accessors leave every key of the mapping unchanged,
\* and setting or resetting the test identifier changes the key DEFAULT_TEST_ID,
\* to the identifier set or to "default", and no other key; only the patch of
\* instance() changes other keys.
C9_ReadOnly ==
    [][(_instance # 0 /\ op'.name # "instance")
       => LET old == objs[_instance]._config
              new == objs'[_instance]._config
          IN  IF op'.name \in TestIdSetters
              THEN new = SetItem(old, "DEFAULT_TEST_ID",
                                 IF op'.name = "set_default_test_id"
                                 THEN op'.test_id ELSE "default")
              ELSE new = old]_vars

\* The identifier has been set on an instance whose mapping held another one: the
\* mapping now holds the identifier set, and its other keys are as constructed
C9_Witness ==
    /\ op.name = "set_default_test_id" /\ op.test_id = "run42"
    /\ _instance # 0
    /\ config_dict = OddPathsDict
    /\ objs[_instance]._config["DEFAULT_TEST_ID"] = "run42"
    /\ objs[_instance]._config["TMP_GHERKIN_PATH"] = None

\* C10: set(t) makes t the current test identifier, reset makes it "default", a
\* constructed instance starts with the DEFAULT_TEST_ID of its mapping ("default"
\* when the base has none), and no other call changes it; get returns it; a
\* per-test accessor called without a test id returns <base path>/<current test
\* identifier>, whose leaf segment is that identifier.
C10_TestIdScoping ==
    [][LET self == op'.self
           new == objs'[self]
       IN  (op'.err = "none" /\ self # 0) =>
           /\ op'.name = "set_default_test_id" => new._default_test_id = op'.test_id
           /\ op'.name = "reset_default_test_id" => new._default_test_id = "default"
           /\ (op'.name = "instance" /\ _instance = 0)
              => /\ new._default_test_id = new._config["DEFAULT_TEST_ID"]
                 /\ new._default_test_id = GetOr(config_dict', "DEFAULT_TEST_ID", "default")
           /\ (op'.name \notin TestIdSetters /\ _instance # 0)
              => new._default_test_id = objs[self]._default_test_id
           /\ op'.name = "get_default_test_id" => op'.ret = new._default_test_id
           /\ (op'.name \in PerTestAccessors /\ op'.test_id = None)
              => /\ op'.ret = PathJoin(new._config[PerTestKey[op'.name]],
                                       new._default_test_id)
                 /\ Basename(op'.ret) = new._default_test_id]_vars

\* The proof path of run42 has been returned to a call without a test id, by an
\* instance whose mapping was since patched with another DEFAULT_TEST_ID
C10_Witness ==
    /\ op.name = "get_proof_path" /\ op.test_id = None /\ op.err = "none"
    /\ objs[op.self]._default_test_id = "run42"
    /\ objs[op.self]._config["DEFAULT_TEST_ID"] = "t7"
    /\ Basename(op.ret) = "run42"

\* C19: whenever get_proof_path has returned, the screenshots and the videos
\* subfolders of the path it returned exist.
C19_ProofLayout ==
    (op.name = "get_proof_path" /\ op.err = "none") =>
        /\ Exists(fs, PathJoin(op.ret, "screenshots"))
        /\ Exists(fs, PathJoin(op.ret, "videos"))

-----------------------------------------------------------------------------
(* Independent instances beside the shared one, all built from the one mapping *)
(* the caller holds                                                            *)

FirefoxDict == ValidCreds @@ [DEFAULT_TEST_ID |-> "t7", BROWSER_TYPE |-> "firefox"]

IsoDicts == {ValidCreds, FirefoxDict}

InitIso ==
    /\ argv = NoArgs
    /\ environ = <<>>
    /\ dotenv = <<>>
    /\ environ0 = environ
    /\ config_dict \in IsoDicts
    /\ objs = <<>>
    /\ _instance = 0
    /\ fs = {}
    /\ dirs_made = 0
    /\ status = "running"
    /\ op = NoCall
    /\ ctx = <<>>

NextIso ==
    \/ NonSingletonConfigManager(config_dict, TRUE)
    \/ instance(config_dict, TRUE)
    \/ reset_instance_held
    \/ \E self \in 1..Len(objs), test_id \in TestIds : set_default_test_id(self, test_id)
    \/ \E self \in 1..Len(objs) : reset_default_test_id(self)

SpecIso == InitIso /\ [][NextIso]_vars

-----------------------------------------------------------------------------
(* Claims about independent instances (SpecIso) *)

\* The one instance a call may change: the object the test identifier is set on,
\* or the shared instance that instance() patches; 0 when there is none
Target ==
    IF op'.name \in TestIdSetters THEN op'.self
    ELSE IF op'.name = "instance" THEN _instance
    ELSE 0

\* C13: no call changes the mapping the caller passed in, and a construction, a
\* patch of the shared instance, a reset of the registry and a set or reset of a
\* test identifier change the mapping and the test identifier of no instance
\* other than the one they act on.
C13_InstanceIsolation ==
    [][/\ config_dict' = config_dict
       /\ \A i \in 1..Len(objs) : i # Target => objs'[i] = objs[i]]_vars

\* The registry was reset and a second shared instance built; its identifier has
\* been set while the first instance, still held, keeps its own
C13_Witness ==
    /\ Len(objs) = 2 /\ _instance = 2
    /\ op.name = "set_default_test_id" /\ op.self = 2
    /\ objs[2]._config["DEFAULT_TEST_ID"] = "run42"
    /\ objs[1]._default_test_id = "t7" /\ objs[1]._config["DEFAULT_TEST_ID"] = "t7"
    /\ config_dict = FirefoxDict

-----------------------------------------------------------------------------
(* SingletonConfigManager.instance() called in concurrent execution contexts. *)
(* The method takes no lock: between its reads and writes of cls._instance    *)
(* the other contexts run.                                                    *)

NumContexts == 2

Contexts == 1..NumContexts

\* A context about to call instance(config_dict, ignore_env) with a dict: `obj` is
\* the object it has constructed and not yet stored, `ret` what the call returned
InstanceCall(d, ignore_env) ==
    [pc |-> "call", config_dict |-> d, ignore_env |-> ignore_env, obj |-> 0, ret |-> 0]

\* if cls._instance is None:
instance_check(t) ==
    /\ Running
    /\ ctx[t].pc = "call"
    /\ ctx' = [ctx EXCEPT ![t].pc = IF _instance = 0 THEN "construct" ELSE "patch"]
    /\ UNCHANGED <<argv, environ, environ0, dotenv, config_dict, objs, _instance, fs,
                   dirs_made, status, op>>

\* cls(config_dict or {}, ignore_env=ignore_env), the value not yet stored
instance_construct(t) ==
    LET r == BaseConfigManager(ctx[t].config_dict, ctx[t].ignore_env, environ, argv,
                               dotenv)
        ok == r.raised = "none"
    IN  /\ Running
        /\ ctx[t].pc = "construct"
        /\ environ' = r.environ
        /\ objs' = IF ok THEN Append(objs, r.self) ELSE objs
        /\ status' = IF r.raised = "SystemExit" THEN "exit1" ELSE status
        /\ ctx' = [ctx EXCEPT ![t].pc = IF ok THEN "assign" ELSE "raised",
                              ![t].obj = IF ok THEN Len(objs) + 1 ELSE 0]
        /\ UNCHANGED <<argv, environ0, dotenv, config_dict, _instance, fs, dirs_made, op>>

\* cls._instance = <the object constructed>
instance_assign(t) ==
    /\ Running
    /\ ctx[t].pc = "assign"
    /\ _instance' = ctx[t].obj
    /\ ctx' = [ctx EXCEPT ![t].pc = "return"]
    /\ UNCHANGED <<argv, environ, environ0, dotenv, config_dict, objs, fs, dirs_made,
                   status, op>>

\* else: if config_dict is not None: cls._instance._config.update(config_dict)
instance_patch(t) ==
    /\ Running
    /\ ctx[t].pc = "patch"
    /\ objs' = [objs EXCEPT ![_instance]._config = Update(@, ctx[t].config_dict)]
    /\ ctx' = [ctx EXCEPT ![t].pc = "return"]
    /\ UNCHANGED <<argv, environ, environ0, dotenv, config_dict, _instance, fs,
                   dirs_made, status, op>>

\* return cls._instance
instance_return(t) ==
    /\ Running
    /\ ctx[t].pc = "return"
    /\ ctx' = [ctx EXCEPT ![t].pc = "done", ![t].ret = _instance]
    /\ op' = Call("instance", _instance, ctx[t].ignore_env, None, None, "none")
    /\ UNCHANGED <<argv, environ, environ0, dotenv, config_dict, objs, _instance, fs,
                   dirs_made, status>>

DevDict == ValidCreds @@ [MODE |-> "dev"]

RaceDicts == {DevDict, FirefoxDict}

\* No shared instance yet; every context is about to call instance() with a mapping
InitRace ==
    /\ argv = NoArgs
    /\ environ = <<>>
    /\ dotenv = <<>>
    /\ environ0 = environ
    /\ config_dict = <<>>
    /\ objs = <<>>
    /\ _instance = 0
    /\ fs = {}
    /\ dirs_made = 0
    /\ status = "running"
    /\ op = NoCall
    /\ ctx \in [Contexts -> {InstanceCall(d, ig) : d \in RaceDicts, ig \in BOOLEAN}]

NextRace ==
    \E t \in Contexts :
        \/ instance_check(t)
        \/ instance_construct(t)
        \/ instance_assign(t)
        \/ instance_patch(t)
        \/ instance_return(t)

SpecRace == InitRace /\ [][NextRace]_vars

-----------------------------------------------------------------------------
(* Claims about concurrent instance() calls (SpecRace) *)

AllReturned == \A t \in Contexts : ctx[t].pc = "done"

\* C14: once concurrent instance() calls made while no shared instance existed
\* have all returned, exactly one object has been constructed, every call has
\* returned that object, and the entries of every mapping supplied are in it.
C14_ConcurrentGetOrCreate ==
    AllReturned =>
        /\ Len(objs) = 1
        /\ \A t \in Contexts : ctx[t].ret = _instance
        /\ \A t \in Contexts : \A k \in DOMAIN ctx[t].config_dict :
              objs[_instance]._config[k] = ctx[t].config_dict[k]

-----------------------------------------------------------------------------
(* The path accessors called on the shared instance in concurrent execution   *)
(* contexts.  Between os.path.exists and os.makedirs, and between two         *)
(* os.makedirs, the other contexts run.  The filesystem is otherwise sound:   *)
(* os.makedirs raises only FileExistsError, when its leaf directory exists.   *)

PlainPathKey ==
    [get_input_gherkin_file_path |-> "INPUT_GHERKIN_FILE_PATH",
     get_tmp_gherkin_path |-> "TMP_GHERKIN_PATH",
     get_junit_xml_base_path |-> "JUNIT_XML_BASE_PATH",
     get_test_data_path |-> "TEST_DATA_PATH"]

\* path = ... of accessor `name` called on `self` with `test_id`
AccessorPath(self, name, test_id) ==
    IF name \in DOMAIN PlainPathKey THEN objs[self]._config[PlainPathKey[name]]
    ELSE PerTestPath(self, PerTestKey[name], test_id)

\* The os.makedirs calls accessor `name` goes on to make for `path`, which does
\* not exist
AccessorTargets(name, path) ==
    IF name = "get_input_gherkin_file_path"
    THEN IF Dirname(path) # "" /\ ~Exists(fs, Dirname(path))
         THEN <<Dirname(path)>> ELSE <<>>
    ELSE IF name = "get_proof_path"
    THEN <<PathJoin(path, "screenshots"), PathJoin(path, "videos")>>
    ELSE <<path>>

\* A context about to call accessor `name` with `test_id`: `path` is its local
\* variable, `todo` the os.makedirs calls it has yet to make
AccessorCall(name, test_id) ==
    [pc |-> "call", name |-> name, test_id |-> test_id, path |-> None,
     todo |-> <<>>, ret |-> None, err |-> "none"]

\* path = ...; if not os.path.exists(path):
accessor_check(t) ==
    LET path == AccessorPath(_instance, ctx[t].name, ctx[t].test_id)
        todo == IF Exists(fs, path) THEN <<>> ELSE AccessorTargets(ctx[t].name, path)
    IN  /\ Running /\ Alive(_instance)
        /\ ctx[t].pc = "call"
        /\ ctx' = [ctx EXCEPT ![t].path = path, ![t].todo = todo,
                              ![t].pc = IF todo = <<>> THEN "return" ELSE "makedirs"]
        /\ UNCHANGED <<argv, environ, environ0, dotenv, config_dict, objs, _instance,
                       fs, dirs_made, status, op>>

\* os.makedirs(<the next directory>)
accessor_makedirs(t) ==
    LET target == Head(ctx[t].todo)
        rest == Tail(ctx[t].todo)
    IN  /\ Running
        /\ ctx[t].pc = "makedirs"
        /\ IF Exists(fs, target)
           THEN /\ ctx' = [ctx EXCEPT ![t].pc = "raised", ![t].err = "FileExistsError"]
                /\ UNCHANGED <<fs, dirs_made>>
           ELSE /\ ctx' = [ctx EXCEPT ![t].todo = rest,
                                      ![t].pc = IF rest = <<>> THEN "return"
                                                ELSE "makedirs"]
                /\ fs' = Makedirs(fs, target)
                /\ dirs_made' = dirs_made + 1
        /\ UNCHANGED <<argv, environ, environ0, dotenv, config_dict, objs, _instance,
                       status, op>>

\* return path
accessor_return(t) ==
    /\ Running
    /\ ctx[t].pc = "return"
    /\ ctx' = [ctx EXCEPT ![t].pc = "done", ![t].ret = ctx[t].path]
    /\ op' = Call(ctx[t].name, _instance, FALSE, ctx[t].test_id, ctx[t].path, "none")
    /\ UNCHANGED <<argv, environ, environ0, dotenv, config_dict, objs, _instance, fs,
                   dirs_made, status>>

\* The shared instance is the one built from ValidCreds; none of its directories
\* exists; every context is about to call a path accessor
InitProvisionRace ==
    /\ argv = NoArgs
    /\ environ = <<>>
    /\ dotenv = <<>>
    /\ environ0 = environ
    /\ config_dict = ValidCreds
    /\ objs = <<BaseConfigManager(ValidCreds, TRUE, <<>>, NoArgs, <<>>).self>>
    /\ _instance = 1
    /\ fs = {}
    /\ dirs_made = 0
    /\ status = "running"
    /\ op = NoCall
    /\ ctx \in [Contexts ->
                  {AccessorCall(name, None) : name \in PathAccessors}
                  \cup {AccessorCall(name, "run42") : name \in PerTestAccessors}]

NextProvisionRace ==
    \E t \in Contexts :
        \/ accessor_check(t)
        \/ accessor_makedirs(t)
        \/ accessor_return(t)

SpecProvisionRace == InitProvisionRace /\ [][NextProvisionRace]_vars

-----------------------------------------------------------------------------
(* Claims about concurrent path accessors (SpecProvisionRace) *)

\* Every context calls the same accessor with the same test identifier
SameAccessor ==
    \A t, u \in Contexts : ctx[t].name = ctx[u].name /\ ctx[t].test_id = ctx[u].test_id

\* C15: when the contexts call the same path accessor for a directory that does
\* not exist, no call raises a filesystem error, and once a call has returned it
\* has returned the path and the directory exists.
C15_ConcurrentProvisioning ==
    SameAccessor =>
        \A t \in Contexts :
            /\ ctx[t].pc # "raised"
            /\ ctx[t].pc = "done" =>
                  /\ ctx[t].ret = AccessorPath(_instance, ctx[t].name, ctx[t].test_id)
                  /\ ctx[t].name # "get_input_gherkin_file_path" => Exists(fs, ctx[t].ret)

=============================================================================
